---- MODULE Spec2Model ----
(***************************************************************************)
(* direnv: the trust-and-load core of rc.go (RC, Allow/Deny/Allowed, Load, *)
(* RecordState and the path helpers) and the `direnv dump` command.        *)
(*                                                                         *)
(* Strings and paths are sequences of one-character strings, so that       *)
(* strings.HasPrefix, strings.Index and slicing act on characters exactly  *)
(* as in the Go code.  A file's content is a sequence of lines.            *)
(***************************************************************************)
EXTENDS Naturals, Integers, Sequences, FiniteSets, TLC

(***************************************************************************)
(* Bounds of the model.                                                    *)
(***************************************************************************)
\* The filesystem clock runs from 0 to MaxTime.
MaxTime == 1

(***************************************************************************)
(* String helpers (package strings).                                       *)
(***************************************************************************)
Sep == "/"
NL == "\n"

\* strings.HasPrefix(s, prefix)
HasPrefix(s, prefix) ==
    /\ Len(prefix) <= Len(s)
    /\ SubSeq(s, 1, Len(prefix)) = prefix

\* The least and the greatest member of a set of indices, 0 for the empty set.
MinOf(S) == IF S = {} THEN 0 ELSE CHOOSE i \in S : \A j \in S : i <= j
MaxOf(S) == IF S = {} THEN 0 ELSE CHOOSE i \in S : \A j \in S : j <= i

\* strings.Index(s, "/"): 0-based index of the first separator, -1 if none.
IndexSep(s) == MinOf({i \in 1..Len(s) : s[i] = Sep}) - 1

\* s contains sub as a contiguous substring (strings.Contains).
Contains(s, sub) ==
    \E i \in 0..(Len(s) - Len(sub)) : SubSeq(s, i + 1, i + Len(sub)) = sub

(***************************************************************************)
(* Path helpers (package path/filepath, Unix).                             *)
(***************************************************************************)
\* The elements of a path between separators, empty elements included.
RECURSIVE SplitPath(_)
SplitAt(p, i) ==
    IF i < 0 THEN <<p>>
    ELSE <<SubSeq(p, 1, i)>> \o SplitPath(SubSeq(p, i + 2, Len(p)))
SplitPath(p) == SplitAt(p, IndexSep(p))

\* filepath.Clean's element stack: "" and "." are dropped, ".." removes the
\* previous element (at the root it is dropped, in a relative path it is kept).
RECURSIVE CleanElems(_, _, _)
CleanStep(e, rest, stack, rooted) ==
    IF e = <<>> \/ e = <<".">> THEN CleanElems(rest, stack, rooted)
    ELSE IF e = <<".", ".">>
    THEN IF stack # <<>> /\ stack[Len(stack)] # <<".", ".">>
         THEN CleanElems(rest, SubSeq(stack, 1, Len(stack) - 1), rooted)
         ELSE IF rooted THEN CleanElems(rest, stack, rooted)
         ELSE CleanElems(rest, Append(stack, e), rooted)
    ELSE CleanElems(rest, Append(stack, e), rooted)
CleanElems(elems, stack, rooted) ==
    IF elems = <<>> THEN stack
    ELSE CleanStep(Head(elems), Tail(elems), stack, rooted)

RECURSIVE JoinElems(_)
JoinElems(elems) ==
    IF elems = <<>> THEN <<>>
    ELSE IF Len(elems) = 1 THEN elems[1]
    ELSE elems[1] \o <<Sep>> \o JoinElems(Tail(elems))

\* filepath.IsAbs
IsAbs(p) == p # <<>> /\ p[1] = Sep

\* filepath.Clean, computed element by element.
CleanJoin(rooted, elems) ==
    IF rooted THEN <<Sep>> \o JoinElems(elems)
    ELSE IF elems = <<>> THEN <<".">>
    ELSE JoinElems(elems)
CleanPath(p) == CleanJoin(IsAbs(p), CleanElems(SplitPath(p), <<>>, IsAbs(p)))

(***************************************************************************)
(* The files and directories of the model.                                 *)
(***************************************************************************)
\* findUp(wd, ".envrc"): the configuration file's name.
RCName == <<".", "e", "n", "v", "r", "c">>

DirE == <<"/", "e">>
DirT == <<"/", "t">>
\* config.AllowDir()
AllowDir == <<"/", "a">>

\* /e/.envrc is a regular file; /t/.envrc is a symbolic link to it.
EnvrcE == DirE \o <<Sep>> \o RCName
EnvrcT == DirT \o <<Sep>> \o RCName
\* /t/../e/.envrc names /e/.envrc too.
EnvrcDots == DirT \o <<Sep, ".", ".", Sep, "e", Sep>> \o RCName

\* The paths a unit is built from.
UnitPaths == {EnvrcE, EnvrcT, EnvrcDots}
\* The paths the loading process and the commands beside it are given.
LoadPaths == {EnvrcE, EnvrcDots}

\* The contents the configuration file takes: one line each.
Contents == {<<"export FOO=bar">>, <<"export FOO=baz">>}

\* The whitelists a process is configured with (config.WhitelistExact,
\* config.WhitelistPrefix); the first is the whitelist-free configuration.
Whitelists ==
    { [WhitelistExact |-> {}, WhitelistPrefix |-> <<>>],
      [WhitelistExact |-> {}, WhitelistPrefix |-> <<DirT>>],
      [WhitelistExact |-> {EnvrcE}, WhitelistPrefix |-> <<>>] }

\* sha256 and "%x": a name with no separator in it, one per input.
Sha256Hex(bytes) == <<ToString(bytes)>>

\* The paths the model meets, cleaned once: CleanTable only saves the work of
\* cleaning the same path again in every state.
LastSep(p) == MaxOf({i \in 1..Len(p) : p[i] = Sep})
WithRecords(cleaned) ==
    cleaned \cup {AllowDir \o <<Sep>> \o Sha256Hex(u \o <<NL>> \o c) :
                      u \in cleaned, c \in Contents}
WithParents(paths) == paths \cup {SubSeq(p, 1, LastSep(p)) : p \in paths}
KnownFiles == UnitPaths \cup WithRecords({CleanPath(u) : u \in UnitPaths})
KnownPaths == WithParents(KnownFiles) \cup {<<Sep>>, DirE, DirT, AllowDir}
CleanTable == [p \in KnownPaths |-> CleanPath(p)]

\* filepath.Clean
CleanIn(table, p) == IF p \in DOMAIN table THEN table[p] ELSE CleanPath(p)
Clean(p) == CleanIn(CleanTable, p)

\* filepath.Join(a, b)
Join(a, b) ==
    IF a = <<>> /\ b = <<>> THEN <<>>
    ELSE Clean(IF a = <<>> THEN b ELSE IF b = <<>> THEN a ELSE a \o <<Sep>> \o b)

\* filepath.Dir
DirUpTo(p, i) == IF i = 0 THEN <<".">> ELSE Clean(SubSeq(p, 1, i))
Dir(p) == DirUpTo(p, LastSep(p))

\* The elements of a cleaned path.
Elems(p) == CleanElems(SplitPath(p), <<>>, IsAbs(p))

\* Length of the longest common prefix of two element sequences.
CommonLen(a, b) ==
    MaxOf({k \in 0..Len(a) : k <= Len(b) /\ \A i \in 1..k : a[i] = b[i]})

\* filepath.Rel(base, targ) for two absolute or two relative paths: ".." for
\* every element of base after the common prefix, then the rest of targ.
\* RelFails(base, targ) is the case in which filepath.Rel returns an error.
RelFailsAt(b, k) == k < Len(b) /\ b[k + 1] = <<".", ".">>
RelFailsElems(b, t) == RelFailsAt(b, CommonLen(b, t))
RelFails(base, targ) ==
    \/ IsAbs(base) # IsAbs(targ)
    \/ RelFailsElems(Elems(base), Elems(targ))

RelOut(out) == IF out = <<>> THEN <<".">> ELSE JoinElems(out)
RelFrom(b, t, k) ==
    RelOut([i \in 1..(Len(b) - k) |-> <<".", ".">>] \o SubSeq(t, k + 1, Len(t)))
RelElems(b, t) == RelFrom(b, t, CommonLen(b, t))
Rel(base, targ) == RelElems(Elems(base), Elems(targ))

NoRC == [path |-> <<>>, allowPath |-> <<>>, times |-> <<>>, nil |-> TRUE]

VARIABLES
    files,      \* the regular files on disk: path -> [data, mtime]
    dirs,       \* the directories on disk
    now,        \* the filesystem clock
    config,     \* the process configuration's whitelist
    last,       \* the last command that acted on the file or the store
    prev,       \* the command before it
    granted,    \* the <<absolute path, content>> pairs allowed and not denied since
    pc,         \* where the loading process stands: "idle", "built", "exec",
                \* "running", "exited", "done"
    rc,         \* the loading process's unit
    call,       \* the arguments and locals of the Load in progress
    result,     \* what the last Load returned
    scen,       \* how far the allow / edit / re-allow scenario has come
    dump,       \* the last run of the dump command
    peer,       \* the private state of a second process while it is not running
    probe       \* a path function under evaluation: its inputs and its value

fsvars == <<files, dirs, now>>

(***************************************************************************)
(* The operating system's view of a path.                                  *)
(***************************************************************************)
\* The kernel follows the symbolic link /t/.envrc when it opens or stats it.
Follow(c) == IF c = EnvrcT THEN EnvrcE ELSE c
Resolve(p) == Follow(Clean(p))

\* os.Stat(p) succeeds.
Exists(r) == r \in DOMAIN files \/ r \in dirs
Stat(p) == p # <<>> /\ Exists(Resolve(p))

\* filepath.Abs: every path of the model is absolute, so Abs is Clean; it
\* reads no link.
Abs(p) == Clean(p)

\* A fileHash that leaves the content out of the hash.
fileHashOfPathOnly(path) == Sha256Hex(Abs(path) \o <<NL>>)

\* fileHash(path): the hash of the absolute path, a newline and the bytes
\* that opening the path yields; fileHashFails when the open fails.
fileHashFails(path) == Resolve(Abs(path)) \notin DOMAIN files
HashOf(abs) == Sha256Hex(abs \o <<NL>> \o files[Resolve(abs)].data)
fileHash(path) == HashOf(Abs(path))

\* FileTimes.Update(path): stat the path and record what was found.
StatEntry(path, r) ==
    IF path # <<>> /\ r \in DOMAIN files
    THEN [path |-> path, modtime |-> files[r].mtime, exists |-> TRUE]
    ELSE [path |-> path, modtime |-> 0, exists |-> path # <<>> /\ Exists(r)]
TimesUpdate(times, path) == Append(times, StatEntry(path, Resolve(path)))

\* FileTimes.Check(): some entry's time or existence differs from what a
\* stat of its path finds now.
Stale(times) ==
    \E i \in 1..Len(times) :
        StatEntry(times[i].path, Resolve(times[i].path)) # times[i]

\* RCFromPath(path, config); NoRC stands for the nil it returns.
NewRC(path, allowPath) ==
    [path |-> path,
     allowPath |-> allowPath,
     times |-> TimesUpdate(TimesUpdate(<<>>, path), allowPath),
     nil |-> FALSE]
RCFromPath(path) ==
    IF fileHashFails(path) THEN NoRC
    ELSE NewRC(path, Join(AllowDir, fileHash(path)))

\* FileTimes.Marshal() and Unmarshal(): the transport encoding of a watch list.
Marshal(times) == <<"gzenv", times>>
Unmarshal(marshalled) == marshalled[2]

\* RCFromEnv(path, marshalled_times, config): the unit has no allow path.
RCFromEnv(path, marshalled_times) ==
    [path |-> path,
     allowPath |-> <<>>,
     times |-> Unmarshal(marshalled_times),
     nil |-> FALSE]

\* An Allowed() that never looks at the whitelist prefixes.
AllowedWithoutPrefixes(unit) ==
    IF Stat(unit.allowPath) THEN TRUE
    ELSE Abs(unit.path) \in config.WhitelistExact

\* rc.Allowed()
AllowedByWhitelist(path) ==
    IF path \in config.WhitelistExact THEN TRUE
    ELSE \E i \in 1..Len(config.WhitelistPrefix) :
             HasPrefix(path, config.WhitelistPrefix[i])
Allowed(unit) ==
    IF Stat(unit.allowPath) THEN TRUE
    ELSE AllowedByWhitelist(Abs(unit.path))

(***************************************************************************)
(* Commands run by the user: each builds its unit from disk and acts.      *)
(***************************************************************************)
NoOp == [op |-> "none", path |-> <<>>, ok |-> TRUE, data |-> <<>>]
NoCall == [active |-> FALSE]
NoResult == [done |-> FALSE]
ScenOff == [phase |-> "off", path |-> <<>>]
NoDump == [ran |-> FALSE]

\* ioutil.WriteFile(path, data): create or replace the file.
WriteFile(path, data) ==
    [p \in DOMAIN files \cup {path} |->
        IF p = path THEN [data |-> data, mtime |-> now] ELSE files[p]]

\* os.Remove(path) of an existing file.
RemoveFile(path) == [p \in DOMAIN files \ {path} |-> files[p]]

\* rc.Allow(): AllowFails when it returns an error, else the effect of
\* os.MkdirAll and allow(rc.path, rc.allowPath).
AllowFails(unit) == unit.allowPath = <<>>

\* A record without the newline after the path.
AllowPayloadWithoutNewline(unit) == unit.path

AllowPayload(unit) == unit.path \o <<NL>>
Allow(unit) ==
    /\ ~AllowFails(unit)
    /\ dirs' = dirs \cup {Dir(unit.allowPath)}
    /\ files' = WriteFile(unit.allowPath, AllowPayload(unit))

\* An os.Remove that reports no error for a path that is not there.
DenyNeverFails(unit) == FALSE

\* rc.Deny(): os.Remove(rc.allowPath); DenyFails when it returns an error.
DenyFails(unit) == ~(unit.allowPath # <<>> /\ unit.allowPath \in DOMAIN files)

\* A Deny that reports success and removes nothing.
DenyLeavesRecord(unit) ==
    /\ ~DenyFails(unit)
    /\ UNCHANGED <<files, dirs>>

Deny(unit) ==
    /\ ~DenyFails(unit)
    /\ files' = RemoveFile(unit.allowPath)
    /\ dirs' = dirs

\* The data the configuration file holds.
Current == files[EnvrcE].data

\* `direnv allow`: RCFromPath, then rc.Allow().
AllowUnit(unit) ==
    /\ ~unit.nil
    /\ Allow(unit)
    /\ now' = now
AllowCmd(u) == AllowUnit(RCFromPath(u))

\* `direnv deny`: RCFromPath, then rc.Deny(); on error nothing changes.
DenyUnit(unit) ==
    /\ ~unit.nil
    /\ IF DenyFails(unit) THEN UNCHANGED <<files, dirs>> ELSE Deny(unit)
    /\ now' = now
DenyCmd(u) == DenyUnit(RCFromPath(u))

\* rc.Allow() and rc.Deny() on a unit rebuilt from the environment; on an
\* error nothing changes.
AllowEnvUnit(unit) ==
    /\ IF AllowFails(unit) THEN UNCHANGED <<files, dirs>> ELSE Allow(unit)
    /\ now' = now
AllowEnv(u) == AllowEnvUnit(RCFromEnv(u, Marshal(<<>>)))
DenyEnv(u) == DenyUnit(RCFromEnv(u, Marshal(<<>>)))

\* The user saves new content to the configuration file.
Edit(c) ==
    /\ c # Current
    /\ files' = WriteFile(EnvrcE, c)
    /\ UNCHANGED <<dirs, now>>

\* Time passes.
Tick ==
    /\ now < MaxTime
    /\ now' = now + 1
    /\ UNCHANGED <<files, dirs>>

(***************************************************************************)
(* Environment snapshots (type Env): a mapping from names to values.       *)
(* Snapshots live in a heap, as Go maps do: a variable of type Env holds a *)
(* reference, and writing through it changes the map every holder sees.    *)
(***************************************************************************)
DIRENV_WATCHES == "DIRENV_WATCHES"
DIRENV_DIR == "DIRENV_DIR"
DIRENV_DIFF == "DIRENV_DIFF"

\* The keys that carry metadata, not user variables.
ReservedKeys == {DIRENV_WATCHES, DIRENV_DIR, DIRENV_DIFF}
UserKeys(e) == DOMAIN e \ ReservedKeys

\* m[k] = v on a map.
EnvSet(e, k, v) == [x \in DOMAIN e \cup {k} |-> IF x = k THEN v ELSE e[x]]

\* heap[ref][k] = v
HeapSet(heap, ref, k, v) == [heap EXCEPT ![ref] = EnvSet(heap[ref], k, v)]

\* env.Copy(): a new map with the same entries; the reference it returns.
CopyRef(heap, ref) == Len(heap) + 1
CopyHeap(heap, ref) == Append(heap, heap[ref])

\* env.Diff(other): set for every user variable new or changed in other,
\* unset for every user variable gone from it, keyed (so ordered) by name.
Diff(e1, e2) ==
    LET changed == {k \in UserKeys(e1) \cup UserKeys(e2) :
                      \/ k \notin DOMAIN e1
                      \/ k \notin DOMAIN e2
                      \/ e1[k] # e2[k]}
    IN  [k \in changed |->
            IF k \in DOMAIN e2 THEN [op |-> "set", value |-> e2[k]]
            ELSE [op |-> "unset", value |-> <<>>]]

\* EnvDiff.Serialize(): the transport encoding.
Serialize(diff) == <<"gzenv", diff>>

\* LoadEnv(out): the snapshot decoded from the transport encoding, or an error.
LoadEnvFails(out) == out.kind # "gzenv"
LoadEnv(out) == out.env

(***************************************************************************)
(* rc.RelTo and rootDir.                                                   *)
(***************************************************************************)
\* rootDir(path)
rootAt(abs, i) == IF i < 0 THEN abs ELSE SubSeq(abs, 1, i + 1)
rootOf(abs) == rootAt(abs, IndexSep(Tail(abs)))
rootDir(path) == rootOf(Abs(path))

\* A RelTo that never compares the root directories.
RelToAlwaysRelative(unit, wd) == Rel(wd, unit.path)

\* rc.RelTo(wd); RelToPanics when filepath.Rel returns an error.
RelToPanics(unit, wd) ==
    rootDir(wd) = rootDir(unit.path) /\ RelFails(wd, unit.path)
RelTo(unit, wd) ==
    IF rootDir(wd) # rootDir(unit.path) THEN unit.path
    ELSE Rel(wd, unit.path)

\* fmt.Sprintf(format, arg): every "%s" becomes arg.
RECURSIVE Sprintf(_, _)
Sprintf(format, arg) ==
    IF format = <<>> THEN <<>>
    ELSE (IF Head(format) = "%s" THEN arg ELSE <<Head(format)>>)
         \o Sprintf(Tail(format), arg)

\* A message that names the path and not the remedy.
NOT_ALLOWED_WithoutRemedy == <<"%s", " is blocked.">>

\* The format NOT_ALLOWED, in pieces, without the quotes around direnv allow.
NOT_ALLOWED == <<"%s", " is blocked. Run ", "direnv allow", " to approve its content">>

NoError == [kind |-> "nil", msg |-> <<>>]
Error(kind, msg) == [kind |-> kind, msg |-> msg]

(***************************************************************************)
(* rc.Load and rc.RecordState.                                             *)
(***************************************************************************)
\* The working directories, the snapshots and the stdin settings Load is
\* called with.
WorkDirs == {DirE, DirT \o <<Sep, "s">>}
InputEnvs ==
    { [k \in {} |-> <<>>],
      [k \in {"FOO", DIRENV_DIR} |-> IF k = "FOO" THEN <<"old">> ELSE <<"-", "/", "x">>] }

\* What bash makes of one line of the configuration file.
RunLine(e, line) ==
    IF line = "export FOO=bar" THEN EnvSet(e, "FOO", <<"bar">>)
    ELSE IF line = "export FOO=baz" THEN EnvSet(e, "FOO", <<"baz">>)
    ELSE e

RECURSIVE RunLines(_, _)
RunLines(e, lines) ==
    IF lines = <<>> THEN e ELSE RunLines(RunLine(e, Head(lines)), Tail(lines))

\* The file the subprocess sources: the display path, taken from cmd.Dir.
SourcedFrom(wd, shown) == IF IsAbs(shown) THEN shown ELSE Join(wd, shown)
SourcedPath(unit, wd) == SourcedFrom(wd, RelTo(unit, wd))

\* rc.RecordState(env, newEnv): the heap after it.
RecordDiff(h1, env, newEnv) ==
    HeapSet(h1, newEnv, DIRENV_DIFF, Serialize(Diff(h1[env], h1[newEnv])))

\* A RecordState that writes the directory marker into env.
RecordStateIntoEnv(unit, heap, env, newEnv) ==
    RecordDiff(HeapSet(heap, env, DIRENV_DIR, <<"-">> \o Dir(unit.path)),
               env, newEnv)

RecordState(unit, heap, env, newEnv) ==
    RecordDiff(HeapSet(heap, newEnv, DIRENV_DIR, <<"-">> \o Dir(unit.path)),
               env, newEnv)

\* Load's first two statements: the heap with env at reference 1 and
\* newEnv, its stamped copy, at the reference LoadNewEnv.
LoadNewEnv(heap) == CopyRef(heap, 1)
LoadStamped(unit, heap) ==
    HeapSet(CopyHeap(heap, 1), CopyRef(heap, 1), DIRENV_WATCHES, Marshal(unit.times))

\* A Load whose deferred call was handed newEnv when the defer statement
\* ran: it records into the stamped copy, whatever is returned.
LoadReturnRecordsCopy(unit, wd, heap, newEnv, err, sub) ==
    [done |-> TRUE, path |-> unit.path, wd |-> wd, input |-> heap[1],
     heap |-> RecordState(unit, heap, 1, 2), ret |-> newEnv,
     err |-> err, sub |-> sub]

\* A return of Load: the deferred RecordState runs on the newEnv of that
\* moment, and that newEnv is the snapshot returned.
LoadReturn(unit, wd, heap, newEnv, err, sub) ==
    [done |-> TRUE, path |-> unit.path, wd |-> wd, input |-> heap[1],
     heap |-> RecordState(unit, heap, 1, newEnv), ret |-> newEnv,
     err |-> err, sub |-> sub]

\* A decode step that assigns newEnv before it looks at the error.
LoadDecodeAssignsFirst(heap, newEnv, out) ==
    [heap |-> Append(heap, LoadEnv(out)), newEnv |-> Len(heap) + 1,
     err |-> IF LoadEnvFails(out) THEN Error("Decode", <<"decode">>) ELSE NoError]

\* A decode step that lays the decoded output over the stamped copy.
LoadDecodeMerges(heap, newEnv, out) ==
    IF LoadEnvFails(out)
    THEN [heap |-> heap, newEnv |-> newEnv, err |-> Error("Decode", <<"decode">>)]
    ELSE [heap |-> Append(heap, [k \in DOMAIN heap[newEnv] \cup DOMAIN LoadEnv(out) |->
                                    IF k \in DOMAIN LoadEnv(out) THEN LoadEnv(out)[k]
                                    ELSE heap[newEnv][k]]),
          newEnv |-> Len(heap) + 1, err |-> NoError]

\* LoadEnv(string(out)) and newEnv = newEnv2: on an error newEnv stays the
\* stamped copy.
LoadDecode(heap, newEnv, out) ==
    IF LoadEnvFails(out)
    THEN [heap |-> heap, newEnv |-> newEnv, err |-> Error("Decode", <<"decode">>)]
    ELSE [heap |-> Append(heap, LoadEnv(out)), newEnv |-> Len(heap) + 1, err |-> NoError]

\* The Allow Record for the unit's path and the given content is on disk.
RecordFor(unit, data) ==
    Stat(Join(AllowDir, Sha256Hex(Abs(unit.path) \o <<NL>> \o data)))

\* A subprocess that evaluated nothing.  allowed is what Allowed() answered,
\* given the snapshot Load was called with.
NoOutput == [kind |-> "none", env |-> <<>>]
NoSub(allowed, given) ==
    [allowed |-> allowed, spawned |-> FALSE, outcome |-> "none", data |-> <<>>,
     approved |-> FALSE, given |-> given, printed |-> NoOutput]

\* FindRC / RCFromPath: the loading process builds its unit.
BuildUnit(unit) ==
    /\ pc = "idle"
    /\ ~unit.nil
    /\ rc' = unit
    /\ pc' = "built"
    /\ UNCHANGED <<fsvars, config, call, result>>
Build(u) == BuildUnit(RCFromPath(u))

\* Load up to the start of the subprocess: copy and stamp, the Allowed()
\* check, the stdin setup.  It returns Blocked, or the stdin error, or goes
\* on to run the subprocess.
LoadChecks(wd, given, heap, newEnv, allowed, stdinFails) ==
    /\ pc = "built"
    /\ ~RelToPanics(rc, wd)
    /\ IF ~allowed
       THEN /\ result' = LoadReturn(rc, wd, heap, newEnv,
                                    Error("Blocked", Sprintf(NOT_ALLOWED, RelTo(rc, wd))),
                                    NoSub(allowed, given))
            /\ pc' = "done"
            /\ call' = NoCall
       ELSE IF stdinFails
       THEN /\ result' = LoadReturn(rc, wd, heap, newEnv,
                                    Error("Open", <<"open /dev/null">>),
                                    NoSub(allowed, given))
            /\ pc' = "done"
            /\ call' = NoCall
       ELSE /\ call' = [active |-> TRUE, wd |-> wd, heap |-> heap, newEnv |-> newEnv,
                      allowed |-> allowed, given |-> given,
                      recorded |-> {c \in Contents : RecordFor(rc, c)}]
            /\ pc' = "exec"
            /\ result' = result
    /\ UNCHANGED <<fsvars, config, rc>>
LoadCheck(wd, env, disableStdin, devNullOpens) ==
    LoadChecks(wd, env, LoadStamped(rc, <<env>>), LoadNewEnv(<<env>>), Allowed(rc),
               disableStdin /\ ~devNullOpens)

\* The outcomes of cmd.Output() and LoadEnv: bash does not start; it exits
\* non-zero after reading the file; it prints what LoadEnv cannot decode; it
\* prints the dump of its environment.
Outcomes == {"start", "exit", "garbage", "ok"}

\* What the subprocess evaluated, and what it printed.
SubOf(outcome, data, out) ==
    [allowed |-> call.allowed, spawned |-> outcome # "start", outcome |-> outcome,
     data |-> IF outcome = "start" THEN <<>> ELSE data,
     approved |-> RecordFor(rc, data) \/ data \in call.recorded,
     given |-> call.given, printed |-> out]
OutputOf(outcome, data) ==
    [kind |-> IF outcome = "ok" THEN "gzenv" ELSE "garbage",
     env |-> RunLines(call.heap[call.newEnv], data)]

\* cmd.Output() starts the subprocess, or fails to and Load returns.
LoadExec(starts) ==
    /\ pc = "exec"
    /\ IF starts
       THEN /\ pc' = "running"
            /\ UNCHANGED <<call, result>>
       ELSE /\ result' = LoadReturn(rc, call.wd, call.heap, call.newEnv,
                                    Error("Exec", <<"start">>),
                                    SubOf("start", <<>>, NoOutput))
            /\ pc' = "done"
            /\ call' = NoCall
    /\ UNCHANGED <<fsvars, config, rc>>

\* The subprocess has exited: how it ended and what it printed.
Exited(sub) ==
    /\ pc = "running"
    /\ call' = [active |-> TRUE, wd |-> call.wd, heap |-> call.heap,
                newEnv |-> call.newEnv, sub |-> sub]
    /\ pc' = "exited"
    /\ UNCHANGED <<fsvars, config, rc, result>>

\* The subprocess runs: it reads the configuration file now, whatever it held
\* when the unit was built, and exits.
SubRead(outcome, data) == Exited(SubOf(outcome, data, OutputOf(outcome, data)))
SubRun(outcome) ==
    /\ pc = "running"
    /\ SubRead(outcome, files[Resolve(SourcedPath(rc, call.wd))].data)

\* A cmd.Output() that returns while the subprocess is still running.
LoadWaitReturnsEarly ==
    /\ pc = "running"
    /\ result' = LoadReturn(rc, call.wd, call.heap, call.newEnv, NoError,
                            SubOf("ok", <<>>, NoOutput))
    /\ pc' = "done"
    /\ call' = NoCall
    /\ UNCHANGED <<fsvars, config, rc>>

\* cmd.Output() returns once the subprocess has exited; LoadEnv decodes what
\* it printed, and Load returns.
LoadDecoded(wd, dec, sub) ==
    LoadReturn(rc, wd, dec.heap, dec.newEnv, dec.err, sub)
LoadResult(wd, sub) ==
    IF sub.outcome = "exit"
    THEN LoadReturn(rc, wd, call.heap, call.newEnv, Error("Exec", <<"exit">>), sub)
    ELSE LoadDecoded(wd, LoadDecode(call.heap, call.newEnv, sub.printed), sub)
LoadWait ==
    /\ pc = "exited"
    /\ result' = LoadResult(call.wd, call.sub)
    /\ pc' = "done"
    /\ call' = NoCall
    /\ UNCHANGED <<fsvars, config, rc>>

\* The caller takes what Load returned; the process ends.
LoadReturned ==
    /\ pc = "done"
    /\ pc' = "idle"
    /\ rc' = NoRC
    /\ result' = NoResult
    /\ UNCHANGED <<fsvars, config, call>>

(***************************************************************************)
(* The store on its own: commands in sequence, the last two remembered.    *)
(***************************************************************************)
vars == <<files, dirs, now, config, last, prev, granted, pc, rc, call, result, scen, dump,
          peer, probe>>
loadvars == <<pc, rc, call, result, scen, dump, peer, probe>>

\* No second process, no function under evaluation.
NoPeer == [mode |-> "none"]
NoProbe == [fn |-> "none"]

Remember(op, u, ok, data) ==
    /\ prev' = last
    /\ last' = [op |-> op, path |-> u, ok |-> ok, data |-> data]

InitFS ==
    /\ \E c \in Contents : files = (EnvrcE :> [data |-> c, mtime |-> 0])
    /\ dirs = {<<Sep>>, DirE, DirT}
    /\ now = 0
    /\ config \in Whitelists

InitStore ==
    /\ InitFS
    /\ last = NoOp
    /\ prev = NoOp
    /\ granted = {}
    /\ pc = "idle"
    /\ rc = NoRC
    /\ call = NoCall
    /\ result = NoResult
    /\ scen = ScenOff
    /\ dump = NoDump
    /\ peer = NoPeer
    /\ probe = NoProbe

StoreAllow ==
    \E u \in UnitPaths :
        /\ AllowCmd(u)
        /\ Remember("allow", u, TRUE, Current)
        /\ granted' = granted \cup {<<Abs(u), Current>>}
        /\ UNCHANGED <<config, loadvars>>

StoreDenyUnit(u, unit) ==
    /\ DenyUnit(unit)
    /\ Remember("deny", u, ~DenyFails(unit), Current)
    /\ granted' = IF DenyFails(unit) THEN granted
                   ELSE granted \ {<<Abs(u), Current>>}
    /\ UNCHANGED <<config, loadvars>>
StoreDeny == \E u \in UnitPaths : StoreDenyUnit(u, RCFromPath(u))

\* The environment names the directory FindRC found the file in.
EnvUnitPaths == {EnvrcE}

StoreAllowEnv ==
    \E u \in EnvUnitPaths :
        /\ AllowEnv(u)
        /\ Remember("allow-env", u, ~AllowFails(RCFromEnv(u, Marshal(<<>>))), Current)
        /\ UNCHANGED <<config, granted, loadvars>>

StoreDenyEnv ==
    \E u \in EnvUnitPaths :
        /\ DenyEnv(u)
        /\ Remember("deny-env", u, ~DenyFails(RCFromEnv(u, Marshal(<<>>))), Current)
        /\ UNCHANGED <<config, granted, loadvars>>

StoreEdit ==
    \E c \in Contents :
        /\ Edit(c)
        /\ Remember("edit", EnvrcE, TRUE, c)
        /\ UNCHANGED <<config, granted, loadvars>>

StoreTick == Tick /\ UNCHANGED <<config, last, prev, granted, loadvars>>

NextStore ==
    \/ StoreAllow
    \/ StoreDeny
    \/ StoreAllowEnv
    \/ StoreDenyEnv
    \/ StoreEdit
    \/ StoreTick

SpecStore == InitStore /\ [][NextStore]_vars

\* The configuration has no whitelist.
WhitelistFree == config.WhitelistExact = {} /\ config.WhitelistPrefix = <<>>

(***************************************************************************)
(* Loading: one process loads, step by step, while the user's commands and *)
(* edits go on.  scen follows the scenario load, allow, load, edit, load,  *)
(* allow, load on one path, each step after the one before has finished;   *)
(* anything else switches it off.                                          *)
(***************************************************************************)
ScenStart == [phase |-> "start", path |-> <<>>]

ScenBuild(u) ==
    IF scen.phase = "start" THEN [phase |-> "start", path |-> u]
    ELSE IF scen.phase \in {"allow1", "edit", "allow2"} /\ scen.path = u THEN scen
    ELSE ScenOff

ScenLoaded ==
    IF scen.phase = "start" THEN [scen EXCEPT !.phase = "load1"]
    ELSE IF scen.phase = "allow1" THEN [scen EXCEPT !.phase = "load2"]
    ELSE IF scen.phase = "edit" THEN [scen EXCEPT !.phase = "load3"]
    ELSE IF scen.phase = "allow2" THEN [scen EXCEPT !.phase = "load4"]
    ELSE ScenOff

ScenAllow(u) ==
    IF pc = "idle" /\ scen.path = u /\ scen.phase = "load1"
    THEN [scen EXCEPT !.phase = "allow1"]
    ELSE IF pc = "idle" /\ scen.path = u /\ scen.phase = "load3"
    THEN [scen EXCEPT !.phase = "allow2"]
    ELSE ScenOff

ScenEdit ==
    IF pc = "idle" /\ scen.phase = "load2" THEN [scen EXCEPT !.phase = "edit"]
    ELSE ScenOff

storeghosts == <<last, prev, granted, dump, peer, probe>>

InitLoad ==
    /\ InitFS
    /\ last = NoOp
    /\ prev = NoOp
    /\ granted = {}
    /\ pc = "idle"
    /\ rc = NoRC
    /\ call = NoCall
    /\ result = NoResult
    /\ scen = ScenStart
    /\ dump = NoDump
    /\ peer = NoPeer
    /\ probe = NoProbe

LoadBuild ==
    \E u \in LoadPaths :
        Build(u) /\ scen' = ScenBuild(u) /\ UNCHANGED storeghosts

LoadChecked ==
    \E wd \in WorkDirs, env \in InputEnvs, disableStdin \in BOOLEAN, devNullOpens \in BOOLEAN :
        /\ LoadCheck(wd, env, disableStdin, devNullOpens)
        /\ scen' = IF pc' = "done" THEN ScenLoaded ELSE scen
        /\ UNCHANGED storeghosts

LoadExeced ==
    \E starts \in BOOLEAN :
        /\ LoadExec(starts)
        /\ scen' = IF pc' = "done" THEN ScenLoaded ELSE scen
        /\ UNCHANGED storeghosts

SubRan ==
    \E outcome \in Outcomes \ {"start"} :
        SubRun(outcome) /\ UNCHANGED <<storeghosts, scen>>

LoadWaited == LoadWait /\ scen' = ScenLoaded /\ UNCHANGED storeghosts

LoadDone == LoadReturned /\ UNCHANGED <<storeghosts, scen>>

\* Once the subprocess has exited, Load reads nothing more from disk: the
\* steps of others are taken before that or after the caller has the result.
UserAllow ==
    \E u \in LoadPaths :
        /\ pc \notin {"exited", "done"}
        /\ AllowCmd(u)
        /\ scen' = ScenAllow(u)
        /\ UNCHANGED <<config, storeghosts, pc, rc, call, result>>

UserDeny ==
    \E u \in LoadPaths :
        /\ pc \notin {"exited", "done"}
        /\ DenyCmd(u)
        /\ scen' = ScenOff
        /\ UNCHANGED <<config, storeghosts, pc, rc, call, result>>

UserEdit ==
    \E c \in Contents :
        /\ pc \notin {"exited", "done"}
        /\ Edit(c)
        /\ scen' = ScenEdit
        /\ UNCHANGED <<config, storeghosts, pc, rc, call, result>>

LoadTick == pc \notin {"exited", "done"} /\ Tick /\ UNCHANGED <<config, storeghosts, loadvars>>

NextLoad ==
    \/ LoadBuild
    \/ LoadChecked
    \/ LoadExeced
    \/ SubRan
    \/ LoadWaited
    \/ LoadDone
    \/ UserAllow
    \/ UserDeny
    \/ UserEdit
    \/ LoadTick

SpecLoad == InitLoad /\ [][NextLoad]_vars

(***************************************************************************)
(* Loading with a subprocess that prints any of a set of dumps, whatever   *)
(* the configuration file holds: bash can change or drop every variable.   *)
(***************************************************************************)
\* The value each variable of a printed dump has when it is there.
PrintedValue(k) ==
    IF k = DIRENV_DIR THEN <<"-", "/", "x">>
    ELSE IF k = DIRENV_WATCHES THEN <<"w">>
    ELSE IF k = DIRENV_DIFF THEN <<"d">>
    ELSE <<"new">>
PrintedKeys == {"FOO", DIRENV_WATCHES, DIRENV_DIR, DIRENV_DIFF}
PrintedEnvs == {[k \in keys |-> PrintedValue(k)] : keys \in SUBSET PrintedKeys}

SubPrint(outcome, env) ==
    Exited(SubOf(outcome, <<>>,
                 [kind |-> IF outcome = "ok" THEN "gzenv" ELSE "garbage", env |-> env]))

SubPrinted ==
    \E outcome \in {"garbage", "ok"}, env \in PrintedEnvs :
        SubPrint(outcome, env) /\ UNCHANGED <<storeghosts, scen>>

InitOutput ==
    /\ InitFS
    /\ last = NoOp
    /\ prev = NoOp
    /\ granted = {}
    /\ pc = "idle"
    /\ rc = NoRC
    /\ call = NoCall
    /\ result = NoResult
    /\ scen = ScenOff
    /\ dump = NoDump
    /\ peer = NoPeer
    /\ probe = NoProbe

NextOutput ==
    \/ LoadBuild
    \/ LoadChecked
    \/ LoadExeced
    \/ SubPrinted
    \/ LoadWaited
    \/ LoadDone

SpecOutput == InitOutput /\ [][NextOutput]_vars

(***************************************************************************)
(* `direnv dump [SHELL] [FD]`.                                             *)
(***************************************************************************)
\* The value of a decimal digit; anything else is no digit.
IsDigit(c) == c \in {"0", "1", "2", "3", "4", "5", "6", "7", "8", "9"}
DigitValue(c) ==
    CASE c = "0" -> 0 [] c = "1" -> 1 [] c = "2" -> 2 [] c = "3" -> 3 [] c = "4" -> 4
      [] c = "5" -> 5 [] c = "6" -> 6 [] c = "7" -> 7 [] c = "8" -> 8 [] c = "9" -> 9

\* A number is kept as its decimal digits without leading zeros: 2^32 is
\* beyond the integers TLC computes with.
RECURSIVE StripZeros(_)
StripZeros(str) ==
    IF Len(str) > 1 /\ Head(str) = "0" THEN StripZeros(Tail(str)) ELSE str

\* math.MaxUint32
MaxUint32 == <<"4", "2", "9", "4", "9", "6", "7", "2", "9", "5">>

\* a <= b for two numbers in digits.
DigitsLeq(a, b) ==
    \/ Len(a) < Len(b)
    \/ /\ Len(a) = Len(b)
       /\ \/ a = b
          \/ \E i \in 1..Len(a) :
                /\ \A j \in 1..(i - 1) : a[j] = b[j]
                /\ DigitValue(a[i]) < DigitValue(b[i])

\* strconv.ParseUint(str, 10, 32): an error on the empty string, on any
\* character that is no digit, and on a value that does not fit 32 bits.
ParseUintFails(str) ==
    \/ str = <<>>
    \/ \E i \in 1..Len(str) : ~IsDigit(str[i])
    \/ ~DigitsLeq(StripZeros(str), MaxUint32)
ParseUint(str) == StripZeros(str)

\* DetectShell(target): the variant the identifier selects, "" for nil.
KnownShells == {"bash", "zsh", "fish", "tcsh", "elvish", "gzenv"}
DetectShell(target) == IF target \in KnownShells THEN target ELSE ""

\* shell.Dump(env): the variant's rendering of the snapshot.
ShellDump(shell, env) == <<shell, env>>

\* The arguments the command is run with: args[1] is the command's name.
DumpTargets == {"gzenv", "bash", "fish", "sh", ""}
DumpFDs ==
    { <<"1">>, <<"3">>, <<"0", "3">>, <<"7">>, <<>>, <<"-", "1">>, <<"3", "x">>,
      <<"4", "2", "9", "4", "9", "6", "7", "2", "9", "5">>,
      <<"4", "2", "9", "4", "9", "6", "7", "2", "9", "6">> }
DumpArgs ==
    {<<"dump">>} \cup {<<"dump", t>> : t \in DumpTargets}
    \cup {<<"dump", t, fd>> : t \in DumpTargets, fd \in DumpFDs}

\* The descriptors a process may be started with; standard output is 1.
Stdout == <<"1">>
OpenSets == {{<<"0">>, <<"1">>, <<"2">>}, {<<"0">>, <<"1">>, <<"2">>, <<"3">>}}

\* out.WriteString(text) on descriptor fd: the text is appended when the
\* descriptor is open, and nothing happens (EBADF) when it is not.
WriteString(writes, fd, text) ==
    IF fd \in DOMAIN writes THEN [writes EXCEPT ![fd] = Append(@, text)] ELSE writes

\* The body of CmdDump's Action: the error returned and what was written.
CmdDumpRun(env, args, open) ==
    LET target == IF Len(args) > 1 THEN args[2] ELSE "gzenv"
        none == [fd \in open |-> <<>>]
        shell == DetectShell(target)
    IN  IF Len(args) > 2 /\ ParseUintFails(args[3])
        THEN [err |-> Error("ParseUint", args[3]), writes |-> none]
        ELSE LET out == IF Len(args) > 2 THEN ParseUint(args[3]) ELSE Stdout
             IN  IF shell = ""
                 THEN [err |-> Error("unknown target shell", <<target>>), writes |-> none]
                 ELSE [err |-> NoError,
                       writes |-> WriteString(none, out, ShellDump(shell, env))]

\* CmdDump's Action: one run of the command in a process whose open
\* descriptors are the set open.  On the 64-bit builds int(fd) is not
\* negative for a 32-bit value, so os.NewFile returns a file.
CmdDump(env, args, open) ==
    /\ dump' = [ran |-> TRUE, env |-> env, args |-> args, open |-> open,
                err |-> CmdDumpRun(env, args, open).err,
                writes |-> CmdDumpRun(env, args, open).writes]
    /\ UNCHANGED <<fsvars, config, last, prev, granted, pc, rc, call, result, scen,
                   peer, probe>>

InitDump == InitStore

NextDump ==
    \E env \in InputEnvs, args \in DumpArgs, open \in OpenSets : CmdDump(env, args, open)

SpecDump == InitDump /\ [][NextDump]_vars

(***************************************************************************)
(* Two processes on one filesystem.  pc, rc, call and result are those of   *)
(* the process that takes the next step; peer.kept holds those of the      *)
(* other, and a switch exchanges them.  First the two run allow on the      *)
(* same file (or not at all); then each loads alone, then both load with   *)
(* their steps interleaved, each ending the way it ended alone.            *)
(***************************************************************************)
IdleRegs == [pc |-> "idle", rc |-> NoRC, call |-> NoCall, result |-> NoResult]
Other(id) == IF id = 1 THEN 2 ELSE 1

\* How a load ends (stdin not opened, subprocess not started, exit status,
\* undecodable output, a dump) and the snapshot it is given.
LoadChoices ==
    {[env |-> e, end |-> "ok"] : e \in InputEnvs}
    \cup {[env |-> [k \in {} |-> <<>>], end |-> x] : x \in {"open", "start", "exit", "garbage"}}
Chosen == peer.chosen[peer.id]

\* An os.MkdirAll that returns Mkdir's error when the directory is there.
MkdirAllFailsOnExisting(existed) == ~existed

\* os.MkdirAll after its Stat found nothing: Mkdir creates the directory, or
\* fails because it exists by now and MkdirAll's Lstat finds the directory.
MkdirAllSucceeds(existed) == TRUE

\* f.Write(data) on a file opened at offset 0.
Overlay(old, data) == data \o SubSeq(old, Len(data) + 1, Len(old))

\* rc.Allow() step by step: the unit is built; os.MkdirAll stats the
\* directory, makes it if there was none; ioutil.WriteFile opens the record
\* truncated, writes the payload; rc.times.Update; return.
AllowBuilt(unit) ==
    /\ pc = "idle"
    /\ ~unit.nil
    /\ ~AllowFails(unit)
    /\ rc' = unit
    /\ pc' = "stat"
    /\ UNCHANGED <<fsvars, config, call, result>>
AllowStat ==
    /\ pc = "stat"
    /\ pc' = IF Dir(rc.allowPath) \in dirs THEN "open" ELSE "mkdir"
    /\ UNCHANGED <<fsvars, config, rc, call, result>>
AllowMkdir ==
    /\ pc = "mkdir"
    /\ dirs' = dirs \cup {Dir(rc.allowPath)}
    /\ IF MkdirAllSucceeds(Dir(rc.allowPath) \in dirs)
       THEN pc' = "open" /\ result' = result
       ELSE pc' = "returned" /\ result' = [done |-> TRUE, err |-> Error("Mkdir", <<"file exists">>)]
    /\ UNCHANGED <<files, now, config, rc, call>>
AllowOpen ==
    /\ pc = "open"
    /\ files' = WriteFile(rc.allowPath, <<>>)
    /\ pc' = "write"
    /\ UNCHANGED <<dirs, now, config, rc, call, result>>
AllowWrite ==
    /\ pc = "write"
    /\ files' = WriteFile(rc.allowPath, Overlay(files[rc.allowPath].data, AllowPayload(rc)))
    /\ pc' = "update"
    /\ UNCHANGED <<dirs, now, config, rc, call, result>>
AllowReturn ==
    /\ pc = "update"
    /\ rc' = [rc EXCEPT !.times = TimesUpdate(rc.times, rc.allowPath)]
    /\ result' = [done |-> TRUE, err |-> NoError]
    /\ pc' = "returned"
    /\ UNCHANGED <<fsvars, config, call>>

\* The scheduler runs the other process.
Switch ==
    /\ pc' = peer.kept.pc
    /\ rc' = peer.kept.rc
    /\ call' = peer.kept.call
    /\ result' = peer.kept.result
    /\ peer' = [peer EXCEPT !.id = Other(peer.id),
                            !.kept = [pc |-> pc, rc |-> rc, call |-> call, result |-> result]]
    /\ UNCHANGED <<fsvars, config>>

\* A process starts afresh.
Fresh ==
    /\ pc' = "idle"
    /\ rc' = NoRC
    /\ call' = NoCall
    /\ result' = NoResult
    /\ UNCHANGED <<fsvars, config>>

twoghosts == <<last, prev, granted, scen, dump, probe>>

InitTwo ==
    /\ InitFS
    /\ last = NoOp
    /\ prev = NoOp
    /\ granted = {}
    /\ pc = "idle"
    /\ rc = NoRC
    /\ call = NoCall
    /\ result = NoResult
    /\ scen = ScenOff
    /\ dump = NoDump
    /\ probe = NoProbe
    /\ \E u \in LoadPaths :
          peer = [mode |-> "start", id |-> 1, path |-> u, chosen |-> <<>>,
                  alone |-> <<NoResult, NoResult>>, kept |-> IdleRegs]

TwoAllows ==
    /\ peer.mode = "start"
    /\ peer' = [peer EXCEPT !.mode = "allow"]
    /\ UNCHANGED <<fsvars, config, pc, rc, call, result, twoghosts>>

TwoAllowBuilt ==
    peer.mode = "allow" /\ AllowBuilt(RCFromPath(peer.path)) /\ UNCHANGED <<peer, twoghosts>>
TwoAllowStat == peer.mode = "allow" /\ AllowStat /\ UNCHANGED <<peer, twoghosts>>
TwoAllowMkdir == peer.mode = "allow" /\ AllowMkdir /\ UNCHANGED <<peer, twoghosts>>
TwoAllowOpen == peer.mode = "allow" /\ AllowOpen /\ UNCHANGED <<peer, twoghosts>>
TwoAllowWrite == peer.mode = "allow" /\ AllowWrite /\ UNCHANGED <<peer, twoghosts>>
TwoAllowReturn == peer.mode = "allow" /\ AllowReturn /\ UNCHANGED <<peer, twoghosts>>

TwoSwitch == peer.mode \in {"allow", "both"} /\ Switch /\ UNCHANGED twoghosts

\* The loads begin, after both allows returned or with no allow at all.
TwoLoads ==
    /\ \/ peer.mode = "start"
       \/ peer.mode = "allow" /\ pc = "returned" /\ peer.kept.pc = "returned"
    /\ \E c1 \in LoadChoices, c2 \in LoadChoices :
          peer' = [peer EXCEPT !.mode = "alone", !.id = 1, !.chosen = <<c1, c2>>,
                               !.kept = IdleRegs]
    /\ Fresh
    /\ UNCHANGED twoghosts

TwoLoading == peer.mode \in {"alone", "both"}
TwoBuild == TwoLoading /\ Build(peer.path) /\ UNCHANGED <<peer, twoghosts>>
TwoCheck ==
    /\ TwoLoading
    /\ LoadCheck(DirE, Chosen.env, Chosen.end = "open", FALSE)
    /\ UNCHANGED <<peer, twoghosts>>
TwoExec == TwoLoading /\ LoadExec(Chosen.end # "start") /\ UNCHANGED <<peer, twoghosts>>
TwoRun ==
    /\ TwoLoading
    /\ SubRun(IF Chosen.end \in {"exit", "garbage"} THEN Chosen.end ELSE "ok")
    /\ UNCHANGED <<peer, twoghosts>>
TwoWait == TwoLoading /\ LoadWait /\ UNCHANGED <<peer, twoghosts>>

\* A load alone has returned: its result is kept, and the next begins.
TwoAloneDone ==
    /\ peer.mode = "alone"
    /\ pc = "done"
    /\ peer' = [peer EXCEPT !.alone[peer.id] = result,
                            !.id = Other(peer.id),
                            !.mode = IF peer.id = 1 THEN "alone" ELSE "both"]
    /\ Fresh
    /\ UNCHANGED twoghosts

NextTwo ==
    \/ TwoAllows
    \/ TwoAllowBuilt
    \/ TwoAllowStat
    \/ TwoAllowMkdir
    \/ TwoAllowOpen
    \/ TwoAllowWrite
    \/ TwoAllowReturn
    \/ TwoSwitch
    \/ TwoLoads
    \/ TwoBuild
    \/ TwoCheck
    \/ TwoExec
    \/ TwoRun
    \/ TwoWait
    \/ TwoAloneDone

SpecTwo == InitTwo /\ [][NextTwo]_vars

(***************************************************************************)
(* FindRC: the search for the configuration file from a directory upward.  *)
(***************************************************************************)
\* The deepest directory searched from and the most configuration files a
\* tree holds.
MaxDepth == 2
MaxFound == 2

\* The directories of the tree: every path of at most MaxDepth names.
Names == {"e", "t"}
Below(d, x) == IF d = <<Sep>> THEN <<Sep, x>> ELSE d \o <<Sep, x>>
RECURSIVE DirsOfDepth(_)
DirsOfDepth(n) ==
    IF n = 0 THEN {<<Sep>>}
    ELSE {Below(d, x) : d \in DirsOfDepth(n - 1), x \in Names}
TreeDirs == UNION {DirsOfDepth(n) : n \in 0..MaxDepth}

\* The directories findUp is started in: each of the tree, and /t/../e.
SearchDirs == TreeDirs \cup {DirT \o <<Sep, ".", ".", Sep, "e">>}

\* The sets of directories that hold a regular file named .envrc (/t holds
\* the symbolic link).
Layouts == {found \in SUBSET (TreeDirs \ {DirT}) : Cardinality(found) <= MaxFound}
RCIn(d) == IF d = <<Sep>> THEN d \o RCName ELSE d \o <<Sep>> \o RCName
LayoutFiles(found) ==
    [p \in {RCIn(d) : d \in found} |-> [data |-> <<"export FOO=bar">>, mtime |-> 0]]

\* eachDir's loop, i counting down from len(path) - 1: at a separator the
\* path is cut before it, the empty path stands for "/", and the cut path is
\* appended.
eachDirCutKeepsEmpty(cut) == cut

eachDirCut(cut) == IF cut = <<>> THEN <<Sep>> ELSE cut
RECURSIVE eachDirLoop(_, _, _)
eachDirLoop(path, i, paths) ==
    IF i < 0 THEN paths
    ELSE IF path[i + 1] = Sep
    THEN eachDirLoop(eachDirCut(SubSeq(path, 1, i)), i - 1,
                     Append(paths, eachDirCut(SubSeq(path, 1, i))))
    ELSE eachDirLoop(path, i - 1, paths)
eachDirOfAbs(path) ==
    IF path = <<Sep>> THEN <<path>>
    ELSE eachDirLoop(path, Len(path) - 1, <<path>>)
eachDir(path) == eachDirOfAbs(Abs(path))

\* fileExists(path): os.Stat succeeds.
fileExists(path) == Stat(path)

\* findUp(searchDir, fileName) about to run: the directories of eachDir are
\* still to visit.
findUpCalled(searchDir) ==
    [fn |-> "findUp", searchDir |-> searchDir, todo |-> eachDir(searchDir),
     visited |-> <<>>, path |-> <<>>, returned |-> FALSE]

\* One turn of findUp's loop over eachDir(searchDir), or the return after it.
findUpVisit(dir, path) ==
    probe' = [probe EXCEPT !.visited = Append(probe.visited, dir),
                           !.todo = Tail(probe.todo),
                           !.path = IF fileExists(path) THEN path ELSE <<>>,
                           !.returned = fileExists(path)]
findUpStep ==
    /\ probe.fn = "findUp"
    /\ ~probe.returned
    /\ IF probe.todo = <<>>
       THEN probe' = [probe EXCEPT !.returned = TRUE]
       ELSE findUpVisit(Head(probe.todo), Join(Head(probe.todo), RCName))
    /\ UNCHANGED <<fsvars, rc>>

\* FindRC(wd, config) after findUp returned: nil or RCFromPath(rcPath).
FindRC ==
    /\ probe.fn = "findUp"
    /\ probe.returned
    /\ probe' = [probe EXCEPT !.fn = "FindRC"]
    /\ rc' = IF probe.path = <<>> THEN NoRC ELSE RCFromPath(probe.path)
    /\ UNCHANGED fsvars

InitFind ==
    /\ \E found \in Layouts : files = LayoutFiles(found)
    /\ dirs = TreeDirs
    /\ now = 0
    /\ config = [WhitelistExact |-> {}, WhitelistPrefix |-> <<>>]
    /\ last = NoOp
    /\ prev = NoOp
    /\ granted = {}
    /\ pc = "idle"
    /\ rc = NoRC
    /\ call = NoCall
    /\ result = NoResult
    /\ scen = ScenOff
    /\ dump = NoDump
    /\ peer = NoPeer
    /\ \E searchDir \in SearchDirs : probe = findUpCalled(searchDir)

FindStepped ==
    findUpStep /\ UNCHANGED <<config, last, prev, granted, pc, call, result, scen, dump, peer>>
FindReturned ==
    FindRC /\ UNCHANGED <<config, last, prev, granted, pc, call, result, scen, dump, peer>>

NextFind == FindStepped \/ FindReturned

SpecFind == InitFind /\ [][NextFind]_vars

(***************************************************************************)
(* rc.RelTo(wd) for the working directories and the file paths of the tree. *)
(***************************************************************************)
\* The configuration file paths: one in each directory, and /t/../e/.envrc.
RelPaths == {RCIn(d) : d \in TreeDirs} \cup {EnvrcDots}

\* rc.RelTo(wd) about to run, and its return or panic.
RelToCalled(wd, path) ==
    [fn |-> "RelTo", wd |-> wd, path |-> path, returned |-> FALSE,
     panicked |-> FALSE, out |-> <<>>]
RelToReturn ==
    /\ probe.fn = "RelTo"
    /\ ~probe.returned
    /\ ~probe.panicked
    /\ probe' = IF RelToPanics([path |-> probe.path], probe.wd)
                THEN [probe EXCEPT !.panicked = TRUE]
                ELSE [probe EXCEPT !.returned = TRUE,
                                   !.out = RelTo([path |-> probe.path], probe.wd)]
    /\ UNCHANGED <<fsvars, rc>>

InitRel ==
    /\ \E found \in Layouts : files = LayoutFiles(found)
    /\ dirs = TreeDirs
    /\ now = 0
    /\ config = [WhitelistExact |-> {}, WhitelistPrefix |-> <<>>]
    /\ last = NoOp
    /\ prev = NoOp
    /\ granted = {}
    /\ pc = "idle"
    /\ rc = NoRC
    /\ call = NoCall
    /\ result = NoResult
    /\ scen = ScenOff
    /\ dump = NoDump
    /\ peer = NoPeer
    /\ \E wd \in SearchDirs, path \in RelPaths : probe = RelToCalled(wd, path)

RelReturned ==
    RelToReturn /\ UNCHANGED <<config, last, prev, granted, pc, call, result, scen, dump, peer>>

NextRel == RelReturned

SpecRel == InitRel /\ [][NextRel]_vars

(***************************************************************************)
(* Claims about the store.                                                 *)
(***************************************************************************)
\* The last two commands were a successful allow of f and then an edit of
\* the file to different content.
AllowedThenEdited ==
    /\ WhitelistFree
    /\ prev.op = "allow" /\ prev.ok
    /\ last.op = "edit"
    /\ prev.data # last.data

\* C1 as stated: after allow(f) at content c1 and an edit to c2 # c1 with no
\* further allow, Allowed() for f is false.
C1_EditedIsNotAllowed ==
    AllowedThenEdited => ~Allowed(RCFromPath(prev.path))

\* C1, amended: after allow(f) at content c1 and an edit to c2 # c1 with no
\* further allow, Allowed() for f is false unless c2 itself was allowed for f
\* earlier and not denied since.
C1_EditedIsNotAllowedUnlessGranted ==
    (AllowedThenEdited /\ <<Abs(prev.path), last.data>> \notin granted)
        => ~Allowed(RCFromPath(prev.path))

C1_Witness ==
    /\ AllowedThenEdited
    /\ <<Abs(prev.path), last.data>> \notin granted
    /\ <<Abs(prev.path), prev.data>> \in granted

\* C2: allow/deny round trip with no whitelist: right after a successful
\* allow of f, Allowed() is true; right after a successful deny of f that
\* follows it with the content unchanged, Allowed() is false.
C2_AllowDenyRoundTrip ==
    WhitelistFree =>
        /\ (last.op = "allow" /\ last.ok) => Allowed(RCFromPath(last.path))
        /\ (/\ prev.op = "allow" /\ prev.ok
            /\ last.op = "deny" /\ last.ok
            /\ Abs(prev.path) = Abs(last.path))
               => ~Allowed(RCFromPath(last.path))

C2_Witness ==
    /\ WhitelistFree
    /\ prev.op = "allow" /\ prev.ok
    /\ last.op = "deny" /\ last.ok
    /\ Abs(prev.path) = Abs(last.path)
    /\ ~Allowed(RCFromPath(last.path))

\* Some whitelist prefix is a string prefix of p, or p is an exact entry.
Whitelisted(p) ==
    \/ p \in config.WhitelistExact
    \/ \E i \in 1..Len(config.WhitelistPrefix) :
          \E n \in 0..Len(p) : SubSeq(p, 1, n) = config.WhitelistPrefix[i]

\* C3: with no Allow Record, a unit whose own path lies inside a whitelisted
\* prefix but whose symlink-resolved path is outside every whitelist entry
\* is not allowed.
C3_SymlinkOutsidePrefixNotAllowed ==
    \A u \in UnitPaths :
        LET unit == RCFromPath(u)
        IN  (/\ ~unit.nil
             /\ ~Stat(unit.allowPath)
             /\ Whitelisted(Abs(u))
             /\ ~Whitelisted(Resolve(Abs(u))))
               => ~Allowed(unit)

C14_TrustIsPerContent ==
    WhitelistFree =>
        /\ \A u \in UnitPaths :
              /\ Allowed(RCFromPath(u)) <=> RecordFor([path |-> u], Current)
              /\ Allowed(RCFromPath(u)) <=> <<Abs(u), Current>> \in granted
        /\ \A u \in UnitPaths, c \in Contents :
              RecordFor([path |-> u], c) <=> <<Abs(u), c>> \in granted

C14_Witness ==
    /\ WhitelistFree
    /\ prev.op = "edit"
    /\ last.op = "edit"
    /\ Allowed(RCFromPath(EnvrcE))
    /\ \E c \in Contents : c # Current /\ ~RecordFor([path |-> EnvrcE], c)

\* The data of every file, without the modification times.
DataOf(fs) == [p \in DOMAIN fs |-> fs[p].data]

\* The step is the command op (the clock moves in no command's step).
Ran(op) == now' = now /\ last'.op = op

\* C15: a Deny that finds no record for the unit's allow path (the current
\* content was never allowed, or was edited after it was allowed, or was
\* denied already, or the unit was rebuilt from the environment and has an
\* empty allow path) returns an error and leaves every file and directory
\* as it was.
C15_DenyWithoutRecordFails ==
    [][ /\ (Ran("deny") /\ ~RecordFor([path |-> last'.path], Current)) =>
              (~last'.ok /\ files' = files /\ dirs' = dirs)
        /\ Ran("deny-env") =>
              (~last'.ok /\ files' = files /\ dirs' = dirs) ]_vars

C15_Witness ==
    /\ last.op = "deny"
    /\ ~last.ok
    /\ prev.op = "edit"
    /\ ~RecordFor([path |-> last.path], Current)
    /\ \E c \in Contents : RecordFor([path |-> last.path], c)

\* C16: after Allow on a unit built from disk the record of the path and the
\* current content holds the unit's absolute path and a newline; an Allow
\* repeated on the same unchanged file leaves the same directories, the same
\* files and the same data in them; Allow on a unit rebuilt from the
\* environment returns an error and creates no directory and no file.
C16_AllowIsIdempotent ==
    /\ [](last.op = "allow" =>
            /\ last.ok
            /\ IsAbs(last.path)
            /\ RecordFor([path |-> last.path], Current)
            /\ files[RCFromPath(last.path).allowPath].data = last.path \o <<NL>>)
    /\ [][ /\ (last.op = "allow" /\ Ran("allow") /\ last'.path = last.path) =>
                (dirs' = dirs /\ DataOf(files') = DataOf(files))
           /\ Ran("allow-env") =>
                (~last'.ok /\ files' = files /\ dirs' = dirs) ]_vars

C16_Witness ==
    /\ last.op = "allow"
    /\ prev.op = "allow"
    /\ prev.path = last.path
    /\ now = MaxTime
    /\ files[RCFromPath(last.path).allowPath].mtime = 0
    /\ files[RCFromPath(last.path).allowPath].data = last.path \o <<NL>>

(***************************************************************************)
(* Claims about two processes.                                             *)
(***************************************************************************)
\* C17: when two processes run allow on the same unchanged file, however
\* their stat, mkdir, open and write steps interleave, each returns without
\* error, and once both have returned the record of the file's current
\* content exists and holds the file's path and a newline; when two
\* processes load the same directory with their steps interleaved, each
\* returns the snapshot, metadata and error it returned when it ran alone.
C17_ProcessesDoNotInterfere ==
    /\ peer.mode = "allow" =>
          /\ pc = "returned" => result.err = NoError
          /\ peer.kept.pc = "returned" => peer.kept.result.err = NoError
          /\ (pc = "returned" /\ peer.kept.pc = "returned") =>
                /\ RecordFor([path |-> peer.path], Current)
                /\ files[rc.allowPath].data = peer.path \o <<NL>>
    /\ peer.mode = "both" =>
          /\ pc = "done" => result = peer.alone[peer.id]
          /\ peer.kept.pc = "done" => peer.kept.result = peer.alone[Other(peer.id)]

C17_Witness ==
    /\ peer.mode = "both"
    /\ WhitelistFree
    /\ pc = "done"
    /\ peer.kept.pc = "done"
    /\ result.err = NoError
    /\ peer.kept.result.err.kind = "Decode"
    /\ RecordFor([path |-> peer.path], Current)

(***************************************************************************)
(* Claims about the search for the configuration file.                     *)
(***************************************************************************)
\* The directory named by the elements and its ancestors, deepest first, "/"
\* last.
Ancestors(elems) ==
    [k \in 1..(Len(elems) + 1) |->
        <<Sep>> \o JoinElems(SubSeq(elems, 1, Len(elems) + 1 - k))]
SearchChain == Ancestors(Elems(probe.searchDir))

\* The directory holds a configuration file (for /t, what its link names).
HasRC(d) == Follow(RCIn(d)) \in DOMAIN files

\* The place in the chain of the deepest directory holding one, 0 if none.
FirstWithRC(chain) == MinOf({k \in 1..Len(chain) : HasRC(chain[k])})

\* C18: findUp visits the start directory and then its ancestors in order,
\* deepest first, each once; it returns at the first of them that holds the
\* configuration file, with that file's path, and returns the empty path
\* exactly when it has visited them all, "/" the last, and none holds one.
C18_FindUpReturnsDeepest ==
    probe.fn = "findUp" =>
        /\ Len(probe.visited) <= Len(SearchChain)
        /\ \A k \in 1..Len(probe.visited) : probe.visited[k] = SearchChain[k]
        /\ \A k \in 1..(Len(probe.visited) - 1) : ~HasRC(probe.visited[k])
        /\ probe.returned =>
              IF FirstWithRC(SearchChain) = 0
              THEN /\ probe.path = <<>>
                   /\ probe.visited = SearchChain
                   /\ probe.visited[Len(probe.visited)] = <<Sep>>
              ELSE /\ probe.path = RCIn(SearchChain[FirstWithRC(SearchChain)])
                   /\ Len(probe.visited) = FirstWithRC(SearchChain)

C18_Witness ==
    /\ probe.fn = "findUp"
    /\ probe.returned
    /\ probe.searchDir # Abs(probe.searchDir)
    /\ probe.visited = <<DirE, <<Sep>>>>
    /\ probe.path = <<Sep>> \o RCName
    /\ ~HasRC(DirE)

\* The first name of the cleaned path, none for "/".
FirstSegment(path) == IF Elems(path) = <<>> THEN <<>> ELSE Elems(path)[1]

\* C19: for an absolute working directory and an absolute file path, RelTo
\* never panics; when the two have the same first segment it returns a
\* relative path that leads from the working directory to the file; when
\* they do not (the working directory is "/", the file lies directly under
\* "/", or the names differ) it returns the file's path as given.
C19_RelToSharesFirstSegment ==
    probe.fn = "RelTo" =>
        /\ ~probe.panicked
        /\ probe.returned =>
              IF FirstSegment(probe.wd) = FirstSegment(probe.path)
              THEN /\ ~IsAbs(probe.out)
                   /\ Join(probe.wd, probe.out) = Clean(probe.path)
              ELSE probe.out = probe.path

C19_Witness ==
    /\ probe.fn = "RelTo"
    /\ probe.returned
    /\ probe.wd = <<Sep>>
    /\ probe.path = <<Sep>> \o RCName
    /\ probe.out = probe.path

(***************************************************************************)
(* Claims about Load.                                                      *)
(***************************************************************************)
\* The snapshot Load returned.
Returned == result.heap[result.ret]

\* The variables the configuration file's content sets.
Exports(data) == RunLines([k \in {} |-> <<>>], data)

\* C5: a Load on a unit for which Allowed() is false returns a Blocked error
\* whose message holds the display path RelTo(wd) and the words direnv allow.
C5_BlockedNamesPathAndRemedy ==
    (pc = "done" /\ ~result.sub.allowed) =>
        /\ result.err.kind = "Blocked"
        /\ Contains(result.err.msg, RelTo([path |-> result.path], result.wd))
        /\ Contains(result.err.msg, <<"direnv allow">>)

C5_Witness ==
    /\ pc = "done"
    /\ ~result.sub.allowed
    /\ result.path = EnvrcE
    /\ result.wd = DirE
    /\ SubSeq(result.err.msg, 1, Len(RCName)) = RCName

\* C6: on every failing return of Load the returned snapshot has exactly the
\* user variables of the snapshot passed in, with the same values.
C6_FailureKeepsUserVariables ==
    (pc = "done" /\ result.err # NoError) =>
        /\ UserKeys(Returned) = UserKeys(result.input)
        /\ \A k \in UserKeys(Returned) : Returned[k] = result.input[k]

C6_Witness ==
    /\ pc = "done"
    /\ result.err.kind = "Decode"
    /\ result.sub.data = <<"export FOO=bar">>
    /\ "FOO" \in DOMAIN result.input
    /\ Returned["FOO"] = <<"old">>

\* C7: on every return of Load the returned snapshot's directory marker is
\* "-" and the directory of the configuration file, and its diff marker is
\* the serialized diff from the snapshot passed in to the returned snapshot.
C7_ReturnedSnapshotIsRecorded ==
    pc = "done" =>
        /\ DIRENV_DIR \in DOMAIN Returned
        /\ Returned[DIRENV_DIR] = <<"-">> \o Dir(result.path)
        /\ DIRENV_DIFF \in DOMAIN Returned
        /\ Returned[DIRENV_DIFF] = Serialize(Diff(result.input, Returned))

C7_Witness ==
    /\ pc = "done"
    /\ result.err = NoError
    /\ result.path = EnvrcDots
    /\ Returned[DIRENV_DIR] = <<"-">> \o DirE
    /\ Returned[DIRENV_DIFF] =
          <<"gzenv", [k \in {"FOO"} |-> [op |-> "set", value |-> <<"baz">>]]>>

\* C8: with no whitelist, in the scenario load, allow, load, edit, load,
\* allow, load on one file: the first and third loads are Blocked; the second
\* and fourth are not, and when their subprocess runs to a decodable dump
\* they succeed with the variables the content of that moment sets.
C8_BlockedUntilAllowedAgain ==
    (WhitelistFree /\ pc = "done") =>
        /\ scen.phase \in {"load1", "load3"} => result.err.kind = "Blocked"
        /\ scen.phase \in {"load2", "load4"} =>
              /\ result.err.kind # "Blocked"
              /\ result.sub.outcome = "ok" =>
                    /\ result.err = NoError
                    /\ \A k \in DOMAIN Exports(Current) :
                          k \in DOMAIN Returned /\ Returned[k] = Exports(Current)[k]

C8_Witness ==
    /\ WhitelistFree
    /\ pc = "done"
    /\ scen.phase = "load4"
    /\ result.err = NoError
    /\ Returned["FOO"] = Exports(Current)["FOO"]

\* C10: with no whitelist, the bytes the subprocess of Load evaluates are
\* bytes for which an Allow Record exists, when Allowed() is asked or when
\* the subprocess reads them.
C10_EvaluatedBytesAreAllowed ==
    (WhitelistFree /\ pc = "done" /\ result.sub.spawned) => result.sub.approved

\* The steps of one invocation of Load: Discovered is "built", Trusted is
\* "exec", Executing is "running" and then "exited", and "done" holds the
\* outcome (Blocked, Loaded or a failure).
LoadSteps ==
    { <<"idle", "built">>, <<"built", "done">>, <<"built", "exec">>,
      <<"exec", "done">>, <<"exec", "running">>, <<"running", "exited">>,
      <<"exited", "done">>, <<"done", "idle">> }

\* C11: within one invocation Load goes built -> done (Blocked, or no stdin)
\* or built -> exec -> running -> exited -> done: the subprocess is spawned
\* at most once, only after Allowed() returned true in that invocation, never
\* after a Blocked outcome, and Load returns only after a spawned subprocess
\* has exited.
C11_LoadStateMachine ==
    [][ /\ pc' # pc => <<pc, pc'>> \in LoadSteps
        /\ (pc # "running" /\ pc' = "running") => (pc = "exec" /\ call.allowed)
        /\ (pc # "done" /\ pc' = "done") =>
              /\ result'.err.kind = "Blocked" =>
                    (pc = "built" /\ ~result'.sub.spawned /\ ~result'.sub.allowed)
              /\ result'.sub.spawned => pc = "exited"
              /\ pc = "exited" => result'.sub.spawned
      ]_vars

C11_Witness ==
    /\ pc = "done"
    /\ result.sub.spawned
    /\ result.sub.allowed
    /\ result.sub.outcome = "ok"
    /\ result.err = NoError

\* C12: when the subprocess succeeds and its output decodes, the snapshot
\* Load returns is the decoded output with the directory marker and the diff
\* marker overwritten: every other key, the watch key included, is in the
\* result exactly when it is in the output, with the output's value; a
\* variable of the snapshot passed in that the output lacks is not in the
\* result and is an unset in the recorded diff.
C12_ReturnedIsDecodedOutput ==
    (pc = "done" /\ result.err = NoError) =>
        LET out == result.sub.printed.env
            given == result.sub.given
        IN  /\ DOMAIN Returned = DOMAIN out \cup {DIRENV_DIR, DIRENV_DIFF}
            /\ \A k \in DOMAIN out \ {DIRENV_DIR, DIRENV_DIFF} : Returned[k] = out[k]
            /\ Returned[DIRENV_DIR] = <<"-">> \o Dir(result.path)
            /\ \A k \in UserKeys(given) \ DOMAIN out :
                  /\ k \notin DOMAIN Returned
                  /\ k \in DOMAIN Returned[DIRENV_DIFF][2]
                  /\ Returned[DIRENV_DIFF][2][k].op = "unset"

C12_Witness ==
    /\ pc = "done"
    /\ result.err = NoError
    /\ "FOO" \in DOMAIN result.sub.given
    /\ "FOO" \notin DOMAIN result.sub.printed.env
    /\ "FOO" \notin DOMAIN Returned
    /\ DIRENV_WATCHES \in DOMAIN Returned
    /\ Returned[DIRENV_WATCHES] = <<"w">>
    /\ "FOO" \in DOMAIN Returned[DIRENV_DIFF][2]
    /\ Returned[DIRENV_DIFF][2]["FOO"].op = "unset"

\* C20: whichever way Load returns (blocked, stdin not opened, subprocess not
\* started, failed, output not decoded, or success), the snapshot passed in
\* is then what it was when Load was called, the snapshot returned is
\* another one, and the directory and diff markers are in the returned one.
C20_LoadLeavesInputAlone ==
    pc = "done" =>
        /\ result.heap[1] = result.sub.given
        /\ result.ret # 1
        /\ {DIRENV_DIR, DIRENV_DIFF} \subseteq DOMAIN Returned
        /\ Returned[DIRENV_DIR] = <<"-">> \o Dir(result.path)

C20_Witness ==
    /\ pc = "done"
    /\ result.err = NoError
    /\ DIRENV_DIR \in DOMAIN result.sub.given
    /\ result.heap[1][DIRENV_DIR] = <<"-", "/", "x">>
    /\ Returned[DIRENV_DIR] # result.heap[1][DIRENV_DIR]
    /\ DIRENV_WATCHES \notin DOMAIN result.heap[1]
    /\ DIRENV_WATCHES \in DOMAIN Returned

\* The Watch Set the unit of the load in progress stamps, against disk now.
StampedStale == Stale(Unmarshal(Marshal(rc.times)))

\* What a stat or a read of the two watched paths finds.
Watched(fs) ==
    [p \in {Resolve(rc.path), rc.allowPath} |->
        IF p \in DOMAIN fs THEN <<TRUE, fs[p]>> ELSE <<FALSE, <<>>>>]

\* C13: the Watch Set a unit stamps covers the configuration file and the
\* allow-record path of its content: (a) it is not stale when built and stays
\* so while neither file changes; (b) from then on a step that edits the
\* configuration file, or an allow or deny that creates or removes the
\* record, leaves it stale.
C13_StampedSetDetectsChanges ==
    [][ /\ (pc = "idle" /\ pc' = "built") => ~StampedStale'
        /\ (~rc.nil /\ rc' = rc /\ ~StampedStale) =>
             /\ Watched(files') = Watched(files) => ~StampedStale'
             /\ files'[EnvrcE].data # files[EnvrcE].data => StampedStale'
             /\ (rc.allowPath \in DOMAIN files) # (rc.allowPath \in DOMAIN files')
                   => StampedStale'
      ]_vars

(***************************************************************************)
(* Claims about the dump command.                                          *)
(***************************************************************************)
\* C9: the dump command writes exactly when it returns no error: it returns
\* an error and writes nothing when the target is unknown or the FD argument
\* is no unsigned 32-bit decimal; otherwise it writes the chosen variant's
\* Dump(env) once, to descriptor FD, or to standard output without FD, the
\* variant being gzenv without SHELL.
C9_DumpWritesUnlessError ==
    dump.ran =>
        LET args == dump.args
            target == IF Len(args) > 1 THEN args[2] ELSE "gzenv"
            dest == IF Len(args) > 2 THEN StripZeros(args[3]) ELSE Stdout
            rejected == \/ target \notin KnownShells
                        \/ Len(args) > 2 /\ ParseUintFails(args[3])
            nothing == \A fd \in DOMAIN dump.writes : dump.writes[fd] = <<>>
        IN  IF rejected
            THEN dump.err # NoError /\ nothing
            ELSE /\ dump.err = NoError
                 /\ dest \in DOMAIN dump.writes
                 /\ dump.writes[dest] = <<ShellDump(target, dump.env)>>
                 /\ \A fd \in DOMAIN dump.writes \ {dest} : dump.writes[fd] = <<>>

====
